---- MODULE Spec2Model ----
(***************************************************************************)
(* A model of telegram-scraper: the time-windowed fetch (scraping.py,      *)
(* utils_scraping.py) and the merge-export pipeline (utils.py).            *)
(*                                                                         *)
(* Time is a count of ticks; TicksPerDay ticks make one calendar day, so   *)
(* that two timestamps can share a calendar date.  A conversation is a     *)
(* sequence of messages with ids 1..n in the order Telegram assigned them  *)
(* and timestamps that never decrease along it.                            *)
(***************************************************************************)
EXTENDS Integers, Sequences, FiniteSets, TLC

\* ---------------------------------------------------------------- bounds
NumMsgs == 3
TicksPerDay == 2
NumDays == 2
MaxRuns == 2

MaxTs == NumDays * TicksPerDay
Ticks == 0 .. (MaxTs - 1)
MsgIds == 1 .. NumMsgs

\* ------------------------------------------------------- the message source
\* The entity client.get_entity returns for a sender: a channel carries a
\* title, a user carries a username attribute, which may hold None.
SenderOf(id) ==
    CASE id % 3 = 1 -> [has_title |-> TRUE, title |-> "News",
                        has_username |-> TRUE, username |-> "news"]
      [] id % 3 = 2 -> [has_title |-> FALSE, title |-> "",
                        has_username |-> TRUE, username |-> "bob"]
      [] OTHER      -> [has_title |-> FALSE, title |-> "",
                        has_username |-> TRUE, username |-> "None"]

TextOf(id) == CASE id % 3 = 1 -> "hallo" [] id % 3 = 2 -> "" [] OTHER -> "welt"

MediaOf(id) == CASE id % 3 = 1 -> "photo" [] id % 3 = 2 -> "none" [] OTHER -> "video/mp4"

Message(id, date) ==
    [id |-> id, date |-> date, text |-> TextOf(id), sender_id |-> 100 + id,
     media |-> MediaOf(id)]

\* Every conversation of at most NumMsgs messages: ids ascending, timestamps
\* non-decreasing (ids are assigned in posting order).
Conversations ==
    UNION { { [i \in 1 .. n |-> Message(i, ts[i])] :
              ts \in { f \in [1 .. n -> Ticks] :
                        \A i \in 1 .. n : \A j \in 1 .. n : i < j => f[i] <= f[j] } } :
            n \in 0 .. NumMsgs }

\* client.iter_messages(chat_entity, offset_date=start_dt, reverse=True): the
\* items the source hands out, oldest first.  Positioning at offset_date is the
\* source's business; the loop does not rely on it.
iter_messages_forward(conversation) == conversation

RECURSIVE Reverse(_)
Reverse(s) == IF s = <<>> THEN <<>> ELSE Append(Reverse(Tail(s)), Head(s))

\* client.iter_messages(group, min_id=0): newest first.
iter_messages_backward(conversation) == Reverse(conversation)

\* ------------------------------------------------------------- date inputs
\* A start_date / end_date argument: None, blank text, text in a date-only
\* format, text in a date+time format (or a naive datetime object), text no
\* format parses, or a time with a UTC offset (ISO text with an offset, or an
\* aware datetime object): t is then the wall-clock reading and off the offset.
RawNone == [kind |-> "none", t |-> 0, off |-> 0]
RawBlank == [kind |-> "blank", t |-> 0, off |-> 0]
RawBad == [kind |-> "bad", t |-> 0, off |-> 0]
RawDate(d) == [kind |-> "date", t |-> d, off |-> 0]
RawDateTime(t) == [kind |-> "datetime", t |-> t, off |-> 0]
RawAware(t, off) == [kind |-> "aware", t |-> t, off |-> off]

RawInputs ==
    {RawNone, RawBlank, RawBad}
        \cup { RawDate(d) : d \in 0 .. (NumDays - 1) }
        \cup { RawDateTime(t) : t \in Ticks }
        \cup { RawAware(t, 1) : t \in Ticks }

\* strptime of a date-only text gives midnight of that day.
Midnight(day) == day * TicksPerDay

DayOf(ts) == ts \div TicksPerDay

\* to_dt with a text no format parses falling back to the default.
to_dt_defaulting(val, default) ==
    CASE val.kind = "date"     -> [ok |-> TRUE, ts |-> Midnight(val.t), tz |-> "UTC"]
      [] val.kind = "datetime" -> [ok |-> TRUE, ts |-> val.t, tz |-> "UTC"]
      [] val.kind = "aware"    -> [ok |-> TRUE, ts |-> val.t - val.off, tz |-> "UTC"]
      [] OTHER                 -> [ok |-> TRUE, ts |-> default.ts, tz |-> default.tz]

\* scraping._get_messages._to_dt.  A result is a time on the UTC scale with
\* the zone the datetime carries; default is such a result.
to_dt(val, default) ==
    CASE val.kind = "none"     -> [ok |-> TRUE, ts |-> default.ts, tz |-> default.tz]
      [] val.kind = "blank"    -> [ok |-> TRUE, ts |-> default.ts, tz |-> default.tz]
      [] val.kind = "date"     -> [ok |-> TRUE, ts |-> Midnight(val.t), tz |-> "UTC"]
      [] val.kind = "datetime" -> [ok |-> TRUE, ts |-> val.t, tz |-> "UTC"]
      [] val.kind = "aware"    -> [ok |-> TRUE, ts |-> val.t - val.off, tz |-> "UTC"]
      [] OTHER                 -> [ok |-> FALSE, ts |-> 0, tz |-> "none"]

\* TodayStart without the truncation to midnight.
TodayStartUntruncated(now) == now

\* datetime.now(timezone.utc).replace(hour=0, minute=0, second=0, microsecond=0)
TodayStart(now) == Midnight(DayOf(now))

\* A window: its bounds, and the zone each bound carries.
NoWindow == [ok |-> FALSE, start |-> 0, end |-> 0, start_tz |-> "none", end_tz |-> "none"]

Window(start_dt, end_dt) ==
    [ok |-> TRUE, start |-> start_dt.ts, end |-> end_dt.ts,
     start_tz |-> start_dt.tz, end_tz |-> end_dt.tz]

\* ResolveWindow keeping the bounds in the order given.
ResolveWindowUnordered(start_date, end_date, now) ==
    LET start_dt == to_dt(start_date, [ts |-> TodayStart(now), tz |-> "UTC"])
        end_dt == to_dt(end_date, [ts |-> now, tz |-> "UTC"])
    IN  IF ~start_dt.ok \/ ~end_dt.ok THEN NoWindow ELSE Window(start_dt, end_dt)

\* lines 115-120: both bounds resolved, then swapped when out of order; now is
\* datetime.now(timezone.utc).
ResolveWindow(start_date, end_date, now) ==
    LET start_dt == to_dt(start_date, [ts |-> TodayStart(now), tz |-> "UTC"])
        end_dt == to_dt(end_date, [ts |-> now, tz |-> "UTC"])
    IN  IF ~start_dt.ok \/ ~end_dt.ok
        THEN NoWindow
        ELSE IF end_dt.ts < start_dt.ts
             THEN Window(end_dt, start_dt)
             ELSE Window(start_dt, end_dt)

\* ------------------------------------------------------------- enrichment
\* What the outside world does during one fetch: the ids whose sender lookup
\* raises, whose media download raises, whose translation raises.
AllFine == [sender_fail |-> {}, media_fail |-> {}, translate_fail |-> {}]

\* GoogleTranslator(...).translate(text)
Translate(text) ==
    CASE text = "hallo" -> "hello"
      [] text = "welt"  -> "world"
      [] text = "[THIS MESSSAGE CONTAINS NO TEXT]" -> "[THIS MESSAGE CONTAINS NO TEXT]"
      [] OTHER          -> text

\* getattr(sender, 'title', getattr(sender, 'username', 'Unknown'))
SenderName(sender) ==
    IF sender.has_title THEN sender.title
    ELSE IF sender.has_username THEN sender.username
    ELSE "Unknown"

\* The path download_media returns for the file name the loop asks for.
MediaPath(message) ==
    CASE message.media = "photo"     -> "photo.jpg"
      [] message.media = "video/mp4" -> "video.mp4"
      [] OTHER                       -> ""

HasMedia(message) == message.media \in {"photo", "video/mp4"}

\* A DATE cell: a datetime object (str = FALSE) or its text (str = TRUE).
DateObj(ts) == [str |-> FALSE, ts |-> ts]
DateStr(ts) == [str |-> TRUE, ts |-> ts]

Row(name, sender_id, id, date, text, translated, media_path) ==
    [SENDER_NAME |-> name, SENDER_ID |-> sender_id, MESSAGE_ID |-> id, DATE |-> date,
     MESSAGE |-> text, TRANSLATED_MESSAGE |-> translated, MEDIA_PATH |-> media_path]

\* ScrapeMessage with a failing translation ending the fetch.
ScrapeMessageTranslationFatal(message, translate, env) ==
    LET c1 == << <<"get_entity", message.id>> >>
        c2 == IF HasMedia(message)
              THEN Append(c1, <<"download_media", message.id>>) ELSE c1
        c3 == IF translate THEN Append(c2, <<"translate", message.id>>) ELSE c2
        asked == IF translate THEN << <<message.id, message.text>> >> ELSE <<>>
    IN  IF message.id \in env.sender_fail
        THEN [raised |-> TRUE, calls |-> c1, asked |-> <<>>, rows |-> <<>>]
        ELSE IF HasMedia(message) /\ message.id \in env.media_fail
        THEN [raised |-> TRUE, calls |-> c2, asked |-> <<>>, rows |-> <<>>]
        ELSE IF translate /\ message.id \in env.translate_fail
        THEN [raised |-> TRUE, calls |-> c3, asked |-> asked, rows |-> <<>>]
        ELSE [raised |-> FALSE, calls |-> c3, asked |-> asked,
              rows |-> << Row(SenderName(SenderOf(message.id)), message.sender_id,
                             message.id, DateObj(message.date), message.text,
                             IF translate THEN Translate(message.text) ELSE "",
                             MediaPath(message)) >>]

\* scraping.py lines 131-181: the body of the loop for an accepted message.
\* Gives the calls made, the texts handed to the translator (asked), and the
\* row appended unless a call raised.
ScrapeMessage(message, translate, env) ==
    LET c1 == << <<"get_entity", message.id>> >>
        c2 == IF HasMedia(message)
              THEN Append(c1, <<"download_media", message.id>>) ELSE c1
        c3 == IF translate THEN Append(c2, <<"translate", message.id>>) ELSE c2
        text_to_translate == message.text
        translated_text ==
            IF translate /\ message.id \notin env.translate_fail
            THEN Translate(text_to_translate) ELSE ""
    IN  IF message.id \in env.sender_fail
        THEN [raised |-> TRUE, calls |-> c1, asked |-> <<>>, rows |-> <<>>]
        ELSE IF HasMedia(message) /\ message.id \in env.media_fail
        THEN [raised |-> TRUE, calls |-> c2, asked |-> <<>>, rows |-> <<>>]
        ELSE [raised |-> FALSE, calls |-> c3,
              asked |-> IF translate THEN << <<message.id, text_to_translate>> >>
                        ELSE <<>>,
              rows |-> << Row(SenderName(SenderOf(message.id)), message.sender_id,
                             message.id, DateObj(message.date), message.text,
                             translated_text, MediaPath(message)) >>]

\* The outcome of a fetch is a record: status is "returned" or "raised"; data
\* and empty are the pair returned; pulled counts the items taken from the
\* source; calls lists the client and translator calls in order; asked lists
\* the texts handed to the translator; window is the resolved window;
\* offending is the input a ValueError names.

\* LoopVerdict with the item at window.end taken to be past the window.
LoopVerdictEndExclusive(message, window) ==
    IF message.date >= window.end THEN "break"
    ELSE IF message.date < window.start THEN "continue"
    ELSE "accept"

\* LoopVerdict with an item before window.start accepted in place of skipped.
LoopVerdictNoSkip(message, window) ==
    IF message.date > window.end THEN "break" ELSE "accept"

\* scraping.py lines 124-129: what the loop does with an item.
LoopVerdict(message, window) ==
    IF message.date > window.end THEN "break"
    ELSE IF message.date < window.start THEN "continue"
    ELSE "accept"

\* scraping.py lines 123-181: the async-for loop from item i on.
RECURSIVE ScrapeLoop(_, _, _, _, _, _)
ScrapeLoop(items, i, window, translate, env, acc) ==
    IF i > Len(items) THEN acc
    ELSE
        LET message == items[i]
            seen == [acc EXCEPT !.pulled = i]
            verdict == LoopVerdict(message, window)
        IN  IF verdict = "break" THEN seen
            ELSE IF verdict = "continue"
            THEN ScrapeLoop(items, i + 1, window, translate, env, seen)
            ELSE
                LET e == ScrapeMessage(message, translate, env)
                    next == [seen EXCEPT !.calls = @ \o e.calls,
                                         !.asked = @ \o e.asked,
                                         !.data = @ \o e.rows]
                IN  IF e.raised
                    THEN [next EXCEPT !.status = "raised", !.error = "enrichment"]
                    ELSE ScrapeLoop(items, i + 1, window, translate, env, next)

\* EmptyFlag with the two branches exchanged.
EmptyFlagInverted(data) == IF data = <<>> THEN FALSE ELSE TRUE

\* scraping.py lines 186-191, utils_scraping.py lines 91-95
EmptyFlag(data) == IF data = <<>> THEN TRUE ELSE FALSE

\* scraping.scraping: connect, authorise, resolve the chat, resolve the window,
\* run the loop, then set the empty flag.
scraping(conversation, start_date, end_date, now, translate, env) ==
    LET opening == << <<"connect", 0>>, <<"is_user_authorized", 0>>, <<"get_entity", 0>> >>
        window == ResolveWindow(start_date, end_date, now)
        blank == [status |-> "returned", error |-> "", data |-> <<>>, empty |-> TRUE,
                  pulled |-> 0, calls |-> Append(opening, <<"iter_messages", 0>>),
                  asked |-> <<>>, window |-> window, offending |-> RawNone]
        first_bad == IF to_dt(start_date, [ts |-> TodayStart(now), tz |-> "UTC"]).ok
                     THEN end_date ELSE start_date
    IN  IF ~window.ok
        THEN [blank EXCEPT !.status = "raised", !.error = "ValueError",
                           !.calls = opening, !.offending = first_bad]
        ELSE LET r == ScrapeLoop(iter_messages_forward(conversation), 1, window,
                                 translate, env, blank)
             IN  [r EXCEPT !.empty = EmptyFlag(r.data)]

\* ------------------------------------------------------------------ mining
\* str(datetime): the text of an aware datetime ends in "+00:00", the text of
\* a naive one does not; the leading "YYYY-MM-DD HH:MM:SS" has a fixed width.
StrOfDate(ts, aware) == [ts |-> ts, offset |-> aware]

\* Python's < on two such texts: the fixed-width fields decide, and of two
\* texts with equal fields the one that is a proper prefix is the smaller.
TextLess(a, b) == a.ts < b.ts \/ (a.ts = b.ts /\ ~a.offset /\ b.offset)

\* utils_scraping.py lines 49-86: the body of the loop for one message.
MineMessage(message, env) ==
    LET c1 == << <<"get_entity", message.id>> >>
        c2 == IF HasMedia(message)
              THEN Append(c1, <<"download_media", message.id>>) ELSE c1
        c3 == Append(c2, <<"translate", message.id>>)
        text == IF message.text = "" THEN "[THIS MESSSAGE CONTAINS NO TEXT]"
                ELSE message.text
        sender == SenderOf(message.id)
        asked == << <<message.id, text>> >>
    IN  IF message.id \in env.sender_fail
        THEN [raised |-> TRUE, calls |-> c1, asked |-> <<>>, rows |-> <<>>]
        ELSE IF HasMedia(message) /\ message.id \in env.media_fail
        THEN [raised |-> TRUE, calls |-> c2, asked |-> <<>>, rows |-> <<>>]
        ELSE IF message.id \in env.translate_fail \/ ~sender.has_title
        THEN [raised |-> TRUE, calls |-> c3, asked |-> asked, rows |-> <<>>]
        ELSE [raised |-> FALSE, calls |-> c3, asked |-> asked,
              rows |-> << Row(sender.title, message.sender_id, message.id,
                             DateObj(message.date), text, Translate(text),
                             MediaPath(message)) >>]

\* utils_scraping.py lines 43-86: the loop from item i on, newest first.
RECURSIVE MineLoop(_, _, _, _, _)
MineLoop(items, i, end_date, env, acc) ==
    IF i > Len(items) THEN acc
    ELSE
        LET message == items[i]
            seen == [acc EXCEPT !.pulled = i]
        IN  IF TextLess(StrOfDate(message.date, TRUE), StrOfDate(end_date, FALSE))
            THEN seen
            ELSE
                LET e == MineMessage(message, env)
                    next == [seen EXCEPT !.calls = @ \o e.calls,
                                         !.asked = @ \o e.asked,
                                         !.data = @ \o e.rows]
                IN  IF e.raised
                    THEN [next EXCEPT !.status = "raised", !.error = "enrichment"]
                    ELSE MineLoop(items, i + 1, end_date, env, next)

\* utils_scraping.mining; local_now is datetime.now() on the machine's clock.
mining(conversation, days_back, local_now, env) ==
    LET opening == << <<"connect", 0>>, <<"is_user_authorized", 0>>, <<"get_entity", 0>> >>
        end_date == TodayStart(local_now) - days_back * TicksPerDay
        blank == [status |-> "returned", error |-> "", data |-> <<>>, empty |-> TRUE,
                  pulled |-> 0, calls |-> Append(opening, <<"iter_messages", 0>>),
                  asked |-> <<>>, offending |-> RawNone,
                  window |-> [ok |-> TRUE, start |-> end_date, end |-> local_now,
                              start_tz |-> "naive", end_tz |-> "naive"]]
        r == MineLoop(iter_messages_backward(conversation), 1, end_date, env, blank)
    IN  [r EXCEPT !.empty = EmptyFlag(r.data)]

\* ------------------------------------------------------------ file names
\* strftime('%Y-%m-%d') of a timestamp, or the text 'unknown'.
DateText(ts) == [known |-> TRUE, day |-> DayOf(ts)]
UnknownText == [known |-> FALSE, day |-> 0]

\* '<chat>_data_<lo>_<hi>.<ext>' in the target directory.
FileName(ext, lo, hi) == [ext |-> ext, lo |-> lo, hi |-> hi]

\* The order of two date fields as text: 'YYYY-MM-DD' texts have one width and
\* order as their dates do; 'unknown' starts with a letter and follows them.
FieldLess(a, b) ==
    IF a.known /\ b.known THEN a.day < b.day ELSE a.known /\ ~b.known

\* The order sorted() gives two file names of one chat and one extension.
NameLess(a, b) == FieldLess(a.lo, b.lo) \/ (a.lo = b.lo /\ FieldLess(a.hi, b.hi))

\* glob.glob(os.path.join(cwd_new, f'{chat_name}_data_*.<ext>'))
Glob(d, ext) == { n \in DOMAIN d : n.ext = ext }

\* sorted(existing_files, reverse=True)[0]
LatestFile(files) == CHOOSE n \in files : \A m \in files : m = n \/ NameLess(m, n)

\* open(path, 'w') and write: the file holds body, whatever it held before.
WriteFile(d, name, body) ==
    [n \in DOMAIN d \cup {name} |-> IF n = name THEN body ELSE d[n]]

\* os.replace(src, dst): dst takes src's body, src is gone.
Replace(d, src, dst) ==
    [n \in (DOMAIN d \ {src}) \cup {dst} |-> IF n = dst THEN d[src] ELSE d[n]]

\* ------------------------------------------------------------- row helpers
Ids(rows) == { rows[i].MESSAGE_ID : i \in 1 .. Len(rows) }

\* A cell as text: str(datetime) for a datetime object.
StrDate(cell) == DateStr(cell.ts)

\* pd.to_datetime(..., errors='coerce') of a DATE cell: the instant it names.
to_datetime(cell) == cell.ts

MinDate(rows) ==
    CHOOSE t \in { to_datetime(rows[i].DATE) : i \in 1 .. Len(rows) } :
        \A i \in 1 .. Len(rows) : t <= to_datetime(rows[i].DATE)

MaxDate(rows) ==
    CHOOSE t \in { to_datetime(rows[i].DATE) : i \in 1 .. Len(rows) } :
        \A i \in 1 .. Len(rows) : t >= to_datetime(rows[i].DATE)

\* MinText reading the first row in place of the earliest.
MinTextOfFirstRow(rows) ==
    IF rows = <<>> THEN UnknownText ELSE DateText(to_datetime(rows[1].DATE))

\* _fmt_dt(dates.min()) or 'unknown': the minimum of no dates is NaT.
MinText(rows) == IF rows = <<>> THEN UnknownText ELSE DateText(MinDate(rows))
MaxText(rows) == IF rows = <<>> THEN UnknownText ELSE DateText(MaxDate(rows))

\* ---------------------------------------------------------------- tabular
\* A text cell as to_csv writes it: a missing value (None, NaN) is left empty.
CsvText(v) == IF v \in {"None", "NaN"} THEN "" ELSE v

\* A text cell as read_csv reads it: an empty field is NaN.
CsvValue(v) == IF v = "" THEN "NaN" ELSE v

\* DataFrame.to_csv(path, index=False), row by row.
to_csv(rows) ==
    [i \in 1 .. Len(rows) |->
        [rows[i] EXCEPT !.SENDER_NAME = CsvText(@), !.DATE = StrDate(@),
                        !.MESSAGE = CsvText(@), !.TRANSLATED_MESSAGE = CsvText(@),
                        !.MEDIA_PATH = CsvText(@)]]

\* The body of a file that is not what an export wrote: truncated, edited by
\* hand, not text.  No parser reads it.
Garbage == << Row("", 0, 0, DateStr(0), "garbage", "", "") >>

\* pd.read_csv raises on such a file (EmptyDataError, ParserError,
\* UnicodeDecodeError).
read_csv_raises(body) == body = Garbage

\* pd.read_csv(path, encoding='utf-8'), row by row.
read_csv(body) ==
    [i \in 1 .. Len(body) |->
        [body[i] EXCEPT !.SENDER_NAME = CsvValue(@), !.MESSAGE = CsvValue(@),
                        !.TRANSLATED_MESSAGE = CsvValue(@),
                        !.MEDIA_PATH = CsvValue(@)]]

\* DataFrame.drop_duplicates(subset=['MESSAGE_ID']): of the rows with one
\* MESSAGE_ID the first is kept.
RECURSIVE DropDuplicatesFrom(_, _)
DropDuplicatesFrom(rows, kept) ==
    IF rows = <<>> THEN kept
    ELSE DropDuplicatesFrom(Tail(rows),
            IF Head(rows).MESSAGE_ID \in Ids(kept) THEN kept
            ELSE Append(kept, Head(rows)))

\* drop_duplicates dropping nothing.
drop_duplicates_none(rows) == rows

drop_duplicates(rows) == DropDuplicatesFrom(rows, <<>>)

\* utils.export_csv from line 145 on, on directory d; rename_ok tells whether
\* os.replace succeeds.
CsvExport(data, append, filename_suffix, d, rename_ok) ==
    LET df_new == data
        output_path == FileName("csv", filename_suffix[1], filename_suffix[2])
        existing_files == Glob(d, "csv")
    IN  IF append /\ existing_files # {}
        THEN
            LET latest_file == LatestFile(existing_files)
                df_existing == read_csv(d[latest_file])
                df_combined == drop_duplicates(df_existing \o df_new)
                new_output_path ==
                    FileName("csv", MinText(df_combined), MaxText(df_combined))
                renamed == IF latest_file # new_output_path /\ rename_ok
                           THEN Replace(d, latest_file, new_output_path)
                           ELSE d
            IN  WriteFile(renamed, new_output_path, to_csv(df_combined))
        ELSE WriteFile(d, output_path, to_csv(df_new))

\* export_csv without the early return on an empty batch.
export_csv_unguarded(data, empty, append, filename_suffix, d, rename_ok) ==
    CsvExport(data, append, filename_suffix, d, rename_ok)

\* utils.export_csv
export_csv(data, empty, append, filename_suffix, d, rename_ok) ==
    IF empty THEN d ELSE CsvExport(data, append, filename_suffix, d, rename_ok)

\* utils.export_csv ends in the exception of pd.read_csv (line 170), which it
\* does not handle; the directory is then as it was.
export_csv_raises(empty, append, d) ==
    /\ ~empty
    /\ append /\ Glob(d, "csv") # {}
    /\ read_csv_raises(d[LatestFile(Glob(d, "csv"))])

\* --------------------------------------------------------------- document
\* new_data = {str(row[2]): row for row in data}: a later row with a key
\* already present takes the place of the earlier one.
RECURSIVE DictOfRows(_, _)
DictOfRows(rows, dict) ==
    IF rows = <<>> THEN dict
    ELSE LET row == Head(rows)
         IN  DictOfRows(Tail(rows),
                IF row.MESSAGE_ID \in Ids(dict)
                THEN [i \in 1 .. Len(dict) |->
                        IF dict[i].MESSAGE_ID = row.MESSAGE_ID THEN row ELSE dict[i]]
                ELSE Append(dict, row))

\* lines 262-273: an existing item enters only under a key not yet present.
RECURSIVE AddMissing(_, _)
AddMissing(items, dict) ==
    IF items = <<>> THEN dict
    ELSE AddMissing(Tail(items),
            IF Head(items).MESSAGE_ID \in Ids(dict) THEN dict
            ELSE Append(dict, Head(items)))

\* lines 277-288: 'DATE': str(row[3]) for every row.
FinalData(dict) == [i \in 1 .. Len(dict) |-> [dict[i] EXCEPT !.DATE = StrDate(@)]]

\* sorted(zip(_keys, final_data), key=lambda t: t[0]): a stable sort.
RECURSIVE InsertByDate(_, _)
InsertByDate(sorted, item) ==
    IF sorted = <<>> THEN <<item>>
    ELSE IF to_datetime(sorted[Len(sorted)].DATE) <= to_datetime(item.DATE)
         THEN Append(sorted, item)
         ELSE Append(InsertByDate(SubSeq(sorted, 1, Len(sorted) - 1), item),
                     sorted[Len(sorted)])

RECURSIVE SortByDateFrom(_, _)
SortByDateFrom(items, sorted) ==
    IF items = <<>> THEN sorted
    ELSE SortByDateFrom(Tail(items), InsertByDate(sorted, Head(items)))

SortByDate(items) == SortByDateFrom(items, <<>>)

\* lines 257-261: json.load(f), and [] when it raises.
json_load(body) == IF body = Garbage THEN <<>> ELSE body

\* utils.export_json from line 245 on, on directory d; rename_ok tells whether
\* os.replace succeeds.
JsonExport(data, append, filename_suffix, d, rename_ok) ==
    LET new_data == DictOfRows(data, <<>>)
        existing_files == Glob(d, "json")
        has_latest == append /\ existing_files # {}
        latest_file == LatestFile(existing_files)
        merged == IF has_latest THEN AddMissing(json_load(d[latest_file]), new_data)
                  ELSE new_data
        final_data == SortByDate(FinalData(merged))
        candidate == FileName("json", MinText(final_data), MaxText(final_data))
    IN  IF append
        THEN LET renamed == IF has_latest /\ latest_file # candidate /\ rename_ok
                            THEN Replace(d, latest_file, candidate)
                            ELSE d
             IN  WriteFile(renamed, candidate, final_data)
        ELSE WriteFile(d, FileName("json", filename_suffix[1], filename_suffix[2]),
                       final_data)

\* utils.export_json
export_json(data, empty, append, filename_suffix, d, rename_ok) ==
    IF empty THEN d ELSE JsonExport(data, append, filename_suffix, d, rename_ok)

\* -------------------------------------------------------------------- start
\* utils.start._norm_dt: a text no format parses falls back to the default.
norm_dt(val, default) ==
    CASE val.kind = "date"     -> Midnight(val.t)
      [] val.kind = "datetime" -> val.t
      [] val.kind = "aware"    -> val.t
      [] OTHER                 -> default

\* utils.py lines 82-91; local_now is datetime.now() on the machine's clock.
FilenameSuffix(start_date, end_date, local_now) ==
    LET start_dt == norm_dt(start_date, TodayStart(local_now))
        end_dt == norm_dt(end_date, local_now)
    IN  IF end_dt < start_dt
        THEN <<DateText(end_dt), DateText(start_dt)>>
        ELSE <<DateText(start_dt), DateText(end_dt)>>

\* utils.py line 84: end_dt < start_dt of a naive and an aware datetime raises
\* TypeError.  _norm_dt returns a datetime with an offset for such an input
\* only; both defaults are naive.
FilenameSuffixRaises(start_date, end_date) ==
    (start_date.kind = "aware") # (end_date.kind = "aware")

\* ------------------------------------------------------------------- state
VARIABLES
    conv,       \* the conversation held by the message source
    pc,         \* where the program is: "idle", "fetched", "csv", "json"
    fetched,    \* the outcome of the last fetch, with fn naming the fetcher
    dir,        \* the target directory: file name -> file body
    job,        \* the export arguments of the run in progress
    pre,        \* the directory as it was when the last export call began
    hist,       \* per format: what has been exported so far
    runs        \* runs of start begun so far

vars == <<conv, pc, fetched, dir, job, pre, hist, runs>>

\* The worlds a fetch can meet: at most one sender lookup or media download
\* raises (the first one ends the fetch), any set of translations raises.
Envs ==
    { [sender_fail |-> s, media_fail |-> m, translate_fail |-> t] :
        s \in {{}} \cup { {i} : i \in MsgIds },
        m \in {{}} \cup { {i} : i \in MsgIds },
        t \in SUBSET MsgIds }

FetchEnvs(translate) ==
    { e \in Envs : /\ (e.sender_fail = {} \/ e.media_fail = {})
                   /\ (translate \/ e.translate_fail = {}) }

\* The arguments of a fetch and the world it met.
Args(start_date, end_date, now, translate, env) ==
    [start_date |-> start_date, end_date |-> end_date, now |-> now,
     translate |-> translate, env |-> env]

NoArgs == Args(RawNone, RawNone, 0, FALSE, AllFine)

NoFetch ==
    [fn |-> "none", status |-> "none", error |-> "", data |-> <<>>, empty |-> TRUE,
     pulled |-> 0, calls |-> <<>>, asked |-> <<>>, window |-> NoWindow,
     offending |-> RawNone, args |-> NoArgs]

Tag(fn, r) == [fn |-> fn] @@ r

EmptyDir == [n \in {} |-> <<>>]

\* The export arguments of a run; span: the calendar dates of the bounds of
\* the window its fetch resolved; error: the export call that ended the run
\* with an exception, if one did.
NoJob ==
    [append |-> FALSE, formats |-> {}, suffix |-> <<UnknownText, UnknownText>>,
     span |-> <<UnknownText, UnknownText>>, error |-> ""]

\* Per format, of the exports of a non-empty batch so far: their number, the
\* ids of their batches, whether all of them ran in append mode (pure),
\* whether all of them ran in non-append mode (fresh), and the batches of the
\* latest one and of the one before it.
NoHist ==
    [f \in {"csv", "json"} |->
        [n |-> 0, ids |-> {}, pure |-> TRUE, fresh |-> TRUE, last |-> <<>>,
         prev |-> <<>>]]

InitFetch ==
    /\ conv \in Conversations
    /\ pc = "idle"
    /\ fetched = NoFetch
    /\ dir = EmptyDir
    /\ job = NoJob
    /\ pre = EmptyDir
    /\ hist = NoHist
    /\ runs = 0

\* The clock never reads earlier than the newest message.
Clock == { t \in Ticks : \A i \in 1 .. Len(conv) : conv[i].date <= t }

\* One call of scraping.scraping on the conversation.
ScrapingCall ==
    /\ pc = "idle"
    /\ \E start_date \in RawInputs, end_date \in RawInputs, now \in Clock,
          translate \in BOOLEAN :
         \E env \in FetchEnvs(translate) :
            fetched' = [args |-> Args(start_date, end_date, now, translate, env)]
                        @@ Tag("scraping",
                               scraping(conv, start_date, end_date, now, translate, env))
    /\ pc' = "fetched"
    /\ UNCHANGED <<conv, dir, job, pre, hist, runs>>

UtcOffsets == {0, 1}

\* One call of utils_scraping.mining on the conversation.
MiningCall ==
    /\ pc = "idle"
    /\ \E days_back \in 0 .. NumDays, now \in Clock, off \in UtcOffsets :
         \E env \in FetchEnvs(TRUE) :
            fetched' = [args |-> Args(RawNone, RawNone, now + off, TRUE, env)]
                        @@ Tag("mining", mining(conv, days_back, now + off, env))
    /\ pc' = "fetched"
    /\ UNCHANGED <<conv, dir, job, pre, hist, runs>>

NextFetch == ScrapingCall \/ MiningCall

\* Deleted messages leave gaps in the ids of a conversation: every conversation
\* of at most NumMsgs messages with ascending ids out of GapIds.
GapIds == 1 .. (NumMsgs + 1)

GappedConversations ==
    UNION { { [i \in 1 .. n |-> Message(ids[i], ts[i])] :
              ids \in { f \in [1 .. n -> GapIds] :
                         \A i \in 1 .. n : \A j \in 1 .. n : i < j => f[i] < f[j] },
              ts \in { f \in [1 .. n -> Ticks] :
                        \A i \in 1 .. n : \A j \in 1 .. n : i < j => f[i] <= f[j] } } :
            n \in 0 .. NumMsgs }

InitMine ==
    /\ conv \in GappedConversations
    /\ pc = "idle"
    /\ fetched = NoFetch
    /\ dir = EmptyDir
    /\ job = NoJob
    /\ pre = EmptyDir
    /\ hist = NoHist
    /\ runs = 0

\* Calls of utils_scraping.mining alone.
SpecMine == InitMine /\ [][MiningCall]_vars

SpecFetch == InitFetch /\ [][NextFetch]_vars

\* ----------------------------------------------------------- the pipeline
\* The conversations the pipeline runs on: NumMsgs messages, the oldest at the
\* first tick of the modelled period and the newest at its last.
Spanning ==
    { c \in Conversations :
        Len(c) = NumMsgs /\ c[1].date = 0 /\ c[Len(c)].date = MaxTs - 1 }

Init ==
    /\ conv \in Spanning
    /\ pc = "idle"
    /\ fetched = NoFetch
    /\ dir = EmptyDir
    /\ job = NoJob
    /\ pre = EmptyDir
    /\ hist = NoHist
    /\ runs = 0

\* The worlds a run of start meets: every call succeeds, or the sender lookup
\* raises.
RunEnvs == {AllFine, [AllFine EXCEPT !.sender_fail = MsgIds]}

\* The date arguments of a run: blank text resolves as None does and a
\* date-only text as the date+time text of its midnight, so one of each stands
\* for both.
RunInputs == {RawNone, RawBad} \cup { RawDateTime(t) : t \in Ticks }

UsesClock(start_date, end_date) ==
    start_date.kind \in {"none", "blank"} \/ end_date.kind \in {"none", "blank"}

Formats == {{"csv"}, {"json"}, {"csv", "json"}}

\* What start holds of a fetch: data, empty = scraping(...).  For a run given
\* a date text no format parses, the whole outcome of the fetch and the date
\* arguments are kept.
Returned(r, start_date, end_date) ==
    IF "bad" \in {start_date.kind, end_date.kind}
    THEN [args |-> [NoArgs EXCEPT !.start_date = start_date, !.end_date = end_date]]
            @@ Tag("scraping", r)
    ELSE [NoFetch EXCEPT !.fn = "scraping", !.status = r.status, !.error = r.error,
                         !.data = r.data, !.empty = r.empty]

\* utils.start lines 48-91: the fetch, then the file name suffix.  An
\* exception raised by the fetch ends the run.
StartCall ==
    /\ pc = "idle"
    /\ runs < MaxRuns
    /\ runs' = runs + 1
    /\ \E start_date \in RunInputs, end_date \in RunInputs, translate \in BOOLEAN,
          env \in RunEnvs, append \in BOOLEAN, formats \in Formats :
         \E now \in IF UsesClock(start_date, end_date) THEN Clock ELSE {MaxTs - 1},
            off \in IF UsesClock(start_date, end_date) THEN UtcOffsets ELSE {0} :
            LET r == scraping(conv, start_date, end_date, now, translate, env)
            IN  /\ fetched' = Returned(r, start_date, end_date)
                /\ IF r.status = "raised"
                   THEN pc' = "done" /\ job' = NoJob
                   ELSE /\ pc' = "csv"
                        /\ job' = [append |-> append, formats |-> formats,
                                   suffix |-> FilenameSuffix(start_date, end_date,
                                                             now + off),
                                   span |-> <<DateText(r.window.start),
                                              DateText(r.window.end)>>,
                                   error |-> ""]
    /\ UNCHANGED <<conv, dir, pre, hist>>

Record(h, data, append) ==
    [n |-> h.n + 1, ids |-> h.ids \cup Ids(data), pure |-> h.pure /\ append,
     fresh |-> h.fresh /\ ~append, last |-> data, prev |-> h.last]

\* utils.start lines 93-94.  An exception raised by export_csv ends the run.
ExportCsvCall(rename_outcomes) ==
    /\ pc = "csv"
    /\ pre' = dir
    /\ IF "csv" \in job.formats
          /\ export_csv_raises(fetched.empty, job.append, dir)
       THEN /\ pc' = "done"
            /\ job' = [job EXCEPT !.error = "csv"]
            /\ UNCHANGED <<dir, hist>>
       ELSE /\ pc' = "json"
            /\ job' = job
            /\ IF "csv" \in job.formats
               THEN /\ \E rename_ok \in rename_outcomes :
                         dir' = export_csv(fetched.data, fetched.empty, job.append,
                                           job.suffix, dir, rename_ok)
                    /\ hist' = IF fetched.empty THEN hist
                               ELSE [hist EXCEPT !["csv"] =
                                        Record(@, fetched.data, job.append)]
               ELSE UNCHANGED <<dir, hist>>
    /\ UNCHANGED <<conv, fetched, runs>>

\* utils.start lines 95-96
ExportJsonCall(rename_outcomes) ==
    /\ pc = "json"
    /\ pc' = "done"
    /\ pre' = dir
    /\ IF "json" \in job.formats
       THEN /\ \E rename_ok \in rename_outcomes :
                 dir' = export_json(fetched.data, fetched.empty, job.append,
                                    job.suffix, dir, rename_ok)
            /\ hist' = IF fetched.empty THEN hist
                       ELSE [hist EXCEPT !["json"] = Record(@, fetched.data, job.append)]
       ELSE UNCHANGED <<dir, hist>>
    /\ UNCHANGED <<conv, fetched, job, runs>>

\* utils.start lines 97-98: the run is over and its locals are gone.
Finish ==
    /\ pc = "done"
    /\ pc' = "idle"
    /\ fetched' = NoFetch
    /\ job' = NoJob
    /\ pre' = EmptyDir
    /\ UNCHANGED <<conv, dir, hist, runs>>

Next == StartCall \/ ExportCsvCall({TRUE}) \/ ExportJsonCall({TRUE}) \/ Finish

Spec == Init /\ [][Next]_vars

\* The pipeline on a file system where os.replace may raise.
NextFault == StartCall \/ ExportCsvCall(BOOLEAN) \/ ExportJsonCall(BOOLEAN) \/ Finish

SpecFault == Init /\ [][NextFault]_vars

\* Between two runs a file of the target directory is damaged from outside.
CorruptFile ==
    /\ pc = "idle"
    /\ \E n \in DOMAIN dir :
         /\ dir[n] # Garbage
         /\ dir' = [dir EXCEPT ![n] = Garbage]
    /\ UNCHANGED <<conv, pc, fetched, job, pre, hist, runs>>

\* The pipeline beside such damage.
NextCorrupt ==
    StartCall \/ ExportCsvCall({TRUE}) \/ ExportJsonCall({TRUE}) \/ Finish
        \/ CorruptFile

SpecCorrupt == Init /\ [][NextCorrupt]_vars

\* utils.start lines 48-91 with every kind of date input: the fetch, then the
\* file name suffix.  An exception raised by either ends the run.
StartAnyInput ==
    /\ pc = "idle"
    /\ \E start_date \in RawInputs, end_date \in RawInputs, now \in Clock,
          off \in UtcOffsets :
         LET r == scraping(conv, start_date, end_date, now, FALSE, AllFine)
             span == <<DateText(r.window.start), DateText(r.window.end)>>
         IN  /\ fetched' = [args |-> Args(start_date, end_date, now, FALSE, AllFine)]
                             @@ Tag("scraping", r)
             /\ job' = IF r.status = "raised" THEN NoJob
                       ELSE IF FilenameSuffixRaises(start_date, end_date)
                       THEN [NoJob EXCEPT !.span = span, !.error = "suffix"]
                       ELSE [append |-> FALSE, formats |-> {"csv", "json"},
                             suffix |-> FilenameSuffix(start_date, end_date, now + off),
                             span |-> span, error |-> ""]
    /\ pc' = "fetched"
    /\ UNCHANGED <<conv, dir, pre, hist, runs>>

SpecNaming == InitFetch /\ [][StartAnyInput]_vars

\* ======================================================== the fetch claims
FetchReturned(fn) == fetched.fn = fn /\ fetched.status = "returned"

InsideWindow(m, w) == w.start <= m.date /\ m.date <= w.end

\* The messages of the conversation inside window w, in the source's order.
Inside(w) ==
    LET In(m) == InsideWindow(m, w) IN SelectSeq(conv, In)

\* The number of items the forward loop takes when it stops at the first
\* message after w.end.
StopsAt(w) ==
    IF \E i \in 1 .. Len(conv) : conv[i].date > w.end
    THEN CHOOSE i \in 1 .. Len(conv) :
            /\ conv[i].date > w.end
            /\ \A j \in 1 .. (i - 1) : conv[j].date <= w.end
    ELSE Len(conv)

\* C1: the batch scraping returns holds exactly the source's messages with
\* start <= timestamp <= end, each once, in ascending timestamp order with ties
\* in ascending message id order; the loop takes no item beyond the first
\* message after end.
C1_ForwardFetchExact ==
    FetchReturned("scraping") =>
        LET w == fetched.window
            data == fetched.data
            expected == Inside(w)
        IN  /\ Len(data) = Len(expected)
            /\ \A i \in 1 .. Len(data) :
                  /\ data[i].MESSAGE_ID = expected[i].id
                  /\ data[i].DATE = DateObj(expected[i].date)
            /\ \A i \in 1 .. Len(data) : \A j \in 1 .. Len(data) :
                  i < j =>
                    \/ data[i].DATE.ts < data[j].DATE.ts
                    \/ /\ data[i].DATE.ts = data[j].DATE.ts
                       /\ data[i].MESSAGE_ID < data[j].MESSAGE_ID
            /\ fetched.pulled = StopsAt(w)

\* A fetch that skipped a message before start, accepted a message at end
\* itself, and stopped at a message after end.
C1_Witness ==
    /\ FetchReturned("scraping")
    /\ \E i \in 1 .. Len(conv) : conv[i].date < fetched.window.start
    /\ \E i \in 1 .. Len(fetched.data) : fetched.data[i].DATE.ts = fetched.window.end
    /\ fetched.pulled >= 1
    /\ conv[fetched.pulled].date > fetched.window.end

\* C10: the empty flag a fetcher returns is true exactly when the sequence it
\* returns has no element.
C10_EmptyFlagIffNoRows ==
    fetched.status = "returned" => (fetched.empty <=> Len(fetched.data) = 0)

\* A fetch over a source that holds messages, none of them inside the window.
C10_Witness ==
    /\ fetched.status = "returned"
    /\ fetched.empty
    /\ conv # <<>>
    /\ Inside(fetched.window) = <<>>

\* ======================================================= the export claims
Exts == {"csv", "json"}

\* The export call of format f of the run in progress has just returned.
Ran(f) ==
    IF f = "csv" THEN pc = "json" /\ "csv" \in job.formats
    ELSE pc = "done" /\ "json" \in job.formats /\ job.error = ""

\* ... and it ran in append mode on a non-empty batch with a prior artifact of
\* its format in the directory.
Merging(f) == Ran(f) /\ ~fetched.empty /\ job.append /\ Glob(pre, f) # {}

\* The prior artifact the call selected, and its records.
Prior(f) == LatestFile(Glob(pre, f))
PriorRows(f) == pre[Prior(f)]

\* The files of format f the call created or changed.
Written(f) == { n \in Glob(dir, f) : n \notin DOMAIN pre \/ dir[n] # pre[n] }

\* Every file the call wrote satisfies P, and some file of the format does (a
\* call that rewrites a file with the body it had leaves no trace).
WrittenSatisfies(f, P(_)) ==
    /\ \A n \in Written(f) : P(n)
    /\ \E n \in Glob(dir, f) : P(n)

RowsOf(rows) == { rows[i] : i \in 1 .. Len(rows) }

RowWithId(rows, id) == CHOOSE r \in RowsOf(rows) : r.MESSAGE_ID = id

\* A row of the batch as format f stores it.
Stored(f, row) == IF f = "csv" THEN to_csv(<<row>>)[1] ELSE FinalData(<<row>>)[1]

\* C2: an append-mode export that finds a prior artifact writes one record per
\* message id of the union of the prior artifact and the batch, and for an id
\* in both it writes the batch's copy.
C2_MergeKeepsBatchCopy ==
    \A f \in Exts :
        Merging(f) =>
            LET Good(n) ==
                    /\ Ids(dir[n]) = Ids(PriorRows(f)) \cup Ids(fetched.data)
                    /\ Len(dir[n]) = Cardinality(Ids(dir[n]))
                    /\ \A id \in Ids(PriorRows(f)) \cap Ids(fetched.data) :
                          RowWithId(dir[n], id) = Stored(f, RowWithId(fetched.data, id))
            IN  WrittenSatisfies(f, Good)

\* C3: while every export of a format has run in append mode, the artifact of
\* that format holds one record for each message id of the batches exported
\* so far, and no other.
C3_NoRecordLoss ==
    \A f \in Exts :
        (hist[f].pure /\ hist[f].n >= 1) =>
            /\ Glob(dir, f) # {}
            /\ \A n \in Glob(dir, f) :
                  /\ Ids(dir[n]) = hist[f].ids
                  /\ Len(dir[n]) = Cardinality(hist[f].ids)

\* C4: an append-mode export of the batch the previous export of that format
\* exported, all exports having run in append mode, leaves the artifact with
\* the records it had, one per message id.
C4_ReexportChangesNothing ==
    \A f \in Exts :
        (Ran(f) /\ ~fetched.empty /\ hist[f].pure /\ hist[f].n >= 2
                /\ hist[f].last = hist[f].prev) =>
            /\ Glob(dir, f) # {}
            /\ \A n \in Glob(dir, f) : \A m \in Glob(pre, f) :
                  /\ RowsOf(dir[n]) = RowsOf(pre[m])
                  /\ Len(dir[n]) = Len(pre[m])
                  /\ Len(dir[n]) = Cardinality(Ids(dir[n]))

\* The same batch of two or more records exported twice to the tabular format.
C4_Witness ==
    /\ Ran("csv") /\ hist["csv"].pure /\ hist["csv"].n = 2
    /\ hist["csv"].last = hist["csv"].prev
    /\ Len(fetched.data) >= 2
    /\ \E n \in Glob(dir, "csv") : Len(dir[n]) = Len(fetched.data)

Chronological(rows) ==
    \A i \in 1 .. Len(rows) : \A j \in 1 .. Len(rows) :
        i < j => to_datetime(rows[i].DATE) <= to_datetime(rows[j].DATE)

\* C5: after an append-mode export that merged a prior artifact with a batch,
\* the records of the written artifact are in ascending timestamp order, in
\* both formats.
C5_MergedBodyChronological ==
    \A f \in Exts :
        Merging(f) =>
            LET Good(n) == Chronological(dir[n])
            IN  WrittenSatisfies(f, Good)

\* C6: while every export of a format has run in append mode, the directory
\* holds at most one artifact of that format.
C6_SingleLiveArtifact ==
    \A f \in Exts : hist[f].pure => Cardinality(Glob(dir, f)) <= 1

\* The timestamps of the union of the prior records and the batch.
UnionDates(f) ==
    { to_datetime(r.DATE) : r \in RowsOf(PriorRows(f)) \cup RowsOf(fetched.data) }

Earliest(S) == CHOOSE t \in S : \A u \in S : t <= u
Latest(S) == CHOOSE t \in S : \A u \in S : t >= u

\* The name that encodes the range of the merged union.
RangeName(f) ==
    FileName(f, DateText(Earliest(UnionDates(f))), DateText(Latest(UnionDates(f))))

\* C7: when an append-mode export finds a prior artifact whose name differs
\* from the newly computed range name, afterwards the prior name is gone and
\* the newly written artifact is the only one of its format, also when the
\* rename fails.
C7_NoOrphanOnRename ==
    \A f \in Exts :
        (Merging(f) /\ Prior(f) # RangeName(f)) =>
            /\ Prior(f) \notin DOMAIN dir
            /\ Glob(dir, f) = {RangeName(f)}

\* C8: an append-mode export that merged prior records with a batch writes
\* the artifact named by the calendar dates of the smallest and the largest
\* timestamp of the union.
C8_NameEncodesMergedRange ==
    \A f \in Exts :
        Merging(f) =>
            /\ RangeName(f) \in DOMAIN dir
            /\ Written(f) \subseteq {RangeName(f)}

\* A merge whose range name is neither the prior artifact's name nor the name
\* the run's window gives.
C8_Witness ==
    \E f \in Exts :
        /\ Merging(f)
        /\ Written(f) = {RangeName(f)}
        /\ RangeName(f) # Prior(f)
        /\ RangeName(f) # FileName(f, job.suffix[1], job.suffix[2])
        /\ Earliest(UnionDates(f)) # Latest(UnionDates(f))

\* C9: an export call with an empty batch, in append mode or not, leaves the
\* directory as it was: no file written, renamed or changed.
C9_EmptyBatchNoOp ==
    \A f \in Exts : (Ran(f) /\ fetched.empty) => dir = pre

\* Both exports of a run called with an empty batch beside existing artifacts.
C9_Witness ==
    /\ pc = "done" /\ job.formats = Exts /\ fetched.empty
    /\ fetched.status = "returned"
    /\ Glob(dir, "csv") # {} /\ Glob(dir, "json") # {}

\* The batch as format f stores it.
StoredBatch(f) == [i \in 1 .. Len(fetched.data) |-> Stored(f, fetched.data[i])]

\* The name a non-append export gives its artifact according to the window the
\* fetch resolved.
WindowName(f) == FileName(f, job.span[1], job.span[2])

\* C11: a non-append export of a non-empty batch writes exactly the batch's
\* records to the file named by the window's start and end dates, and every
\* other file of the directory stays as it was.
C11_NonAppendWritesWindowFile ==
    \A f \in Exts :
        (Ran(f) /\ ~fetched.empty /\ ~job.append) =>
            /\ DOMAIN dir = DOMAIN pre \cup {WindowName(f)}
            /\ dir[WindowName(f)] = StoredBatch(f)
            /\ \A n \in DOMAIN pre \ {WindowName(f)} : dir[n] = pre[n]

\* C12: while every export of a format has run in non-append mode, an export
\* leaves each artifact an earlier run wrote in place with the content it had.
C12_NoOverwriteBetweenRuns ==
    \A f \in Exts :
        (Ran(f) /\ ~fetched.empty /\ hist[f].fresh /\ hist[f].n >= 2) =>
            \A n \in Glob(pre, f) : n \in DOMAIN dir /\ dir[n] = pre[n]

\* What the export call of format f does to directory d when called with the
\* batch and suffix of the run in progress and the given append option.
ExportOf(f, append, d) ==
    IF f = "csv"
    THEN export_csv(fetched.data, fetched.empty, append, job.suffix, d, TRUE)
    ELSE export_json(fetched.data, fetched.empty, append, job.suffix, d, TRUE)

\* C13: an append-mode export of a non-empty batch that finds no prior
\* artifact of its format leaves the directory as the same call with append
\* disabled would: the same file name, the same records.
C13_AppendWithoutPriorIsNonAppend ==
    \A f \in Exts :
        (Ran(f) /\ ~fetched.empty /\ job.append /\ Glob(pre, f) = {}) =>
            dir = ExportOf(f, FALSE, pre)

\* ============================================= the window and error claims
\* A fetch by scraping has ended, by returning or by raising.
Scraped == fetched.fn = "scraping"

Resolvable(val) == val.kind # "bad"

Absent(val) == val.kind \in {"none", "blank"}

\* Today at 00:00 on the UTC scale, for the clock reading of the fetch.
UtcMidnight == (fetched.args.now \div TicksPerDay) * TicksPerDay

\* The two bounds as resolved one by one, before any reordering.
ResolvedStart == to_dt(fetched.args.start_date, [ts |-> UtcMidnight, tz |-> "UTC"])
ResolvedEnd == to_dt(fetched.args.end_date, [ts |-> fetched.args.now, tz |-> "UTC"])

\* C14: for every pair of resolvable start and end inputs the window used for
\* fetching has start <= end, its bounds being the two resolved bounds,
\* exchanged when the resolved start is later than the resolved end, and both
\* bounds are in UTC.
C14_WindowOrdered ==
    (Scraped /\ Resolvable(fetched.args.start_date)
             /\ Resolvable(fetched.args.end_date)) =>
        LET w == fetched.window
        IN  /\ w.ok
            /\ w.start <= w.end
            /\ IF ResolvedStart.ts > ResolvedEnd.ts
               THEN w.start = ResolvedEnd.ts /\ w.end = ResolvedStart.ts
               ELSE w.start = ResolvedStart.ts /\ w.end = ResolvedEnd.ts
            /\ w.start_tz = "UTC" /\ w.end_tz = "UTC"

\* A fetch whose start input, a time with an offset, resolves later than its
\* end input, and which accepted a message.
C14_Witness ==
    /\ Scraped /\ fetched.status = "returned"
    /\ fetched.args.start_date.kind = "aware"
    /\ fetched.args.end_date.kind = "date"
    /\ ResolvedStart.ts > ResolvedEnd.ts
    /\ fetched.window.start < fetched.window.end
    /\ fetched.data # <<>>

\* C15: an absent start (None or blank text) resolves to today at 00:00 and
\* an absent end to now, both in UTC, and the resolution of absent inputs does
\* not fail.
C15_WindowDefaults ==
    Scraped =>
        LET w == fetched.window
            start_date == fetched.args.start_date
            end_date == fetched.args.end_date
        IN  /\ (Absent(start_date) /\ Absent(end_date)) =>
                  /\ w.ok /\ fetched.error # "ValueError"
                  /\ w.start = UtcMidnight /\ w.end = fetched.args.now
            /\ (Absent(start_date) /\ Resolvable(end_date)) =>
                  /\ w.ok /\ UtcMidnight \in {w.start, w.end}
                  /\ w.start_tz = "UTC" /\ w.end_tz = "UTC"
            /\ (Absent(end_date) /\ Resolvable(start_date)) =>
                  /\ w.ok /\ fetched.args.now \in {w.start, w.end}
                  /\ w.start_tz = "UTC" /\ w.end_tz = "UTC"

\* A fetch with blank text for start and None for end, some time after
\* midnight, that accepted a message.
C15_Witness ==
    /\ Scraped /\ fetched.status = "returned"
    /\ fetched.args.start_date.kind = "blank"
    /\ fetched.args.end_date.kind = "none"
    /\ fetched.args.now % TicksPerDay # 0
    /\ fetched.window.start < fetched.window.end
    /\ fetched.data # <<>>

\* C16: when the start or end input is a text no format parses, the fetch
\* ends with the date format error and has made no call to the message source
\* before it: no connect, no authorisation request, no entity resolution, no
\* message iteration.
C16_InvalidDateBeforeNetwork ==
    (Scraped /\ (~Resolvable(fetched.args.start_date)
                    \/ ~Resolvable(fetched.args.end_date))) =>
        /\ fetched.status = "raised" /\ fetched.error = "ValueError"
        /\ fetched.calls = <<>>

\* The run in progress was given a date text no format parses.
GivenBadDate ==
    Scraped /\ (~Resolvable(fetched.args.start_date)
                   \/ ~Resolvable(fetched.args.end_date))

\* C17: a run given a date text that no format parses ends in the error that
\* names that text: no window is resolved with a default in its place, no
\* message is pulled from the source, no export is called and the directory
\* stays as it was.
C17_InvalidDateNotDefaulted ==
    /\ [](GivenBadDate =>
            /\ fetched.status = "raised" /\ fetched.error = "ValueError"
            /\ fetched.offending \in {fetched.args.start_date, fetched.args.end_date}
            /\ ~Resolvable(fetched.offending)
            /\ ~fetched.window.ok
            /\ fetched.pulled = 0 /\ fetched.data = <<>>
            /\ \A i \in 1 .. Len(fetched.calls) : fetched.calls[i][1] # "iter_messages"
            /\ pc = "done" /\ job.formats = {})
    /\ [][GivenBadDate' => dir' = dir]_vars

\* A run given a good start and an unparsable end, beside the artifacts of an
\* earlier run.
C17_Witness ==
    /\ GivenBadDate
    /\ fetched.args.start_date.kind = "datetime"
    /\ fetched.offending = fetched.args.end_date
    /\ dir # EmptyDir

\* ========================================== the enrichment failure claims
\* The ids of the messages inside the resolved window.
AcceptedIds == { Inside(fetched.window)[i].id : i \in 1 .. Len(Inside(fetched.window)) }

\* The batch holds one row for each message inside the window, in order.
AllAccepted ==
    /\ Len(fetched.data) = Len(Inside(fetched.window))
    /\ \A i \in 1 .. Len(fetched.data) :
          fetched.data[i].MESSAGE_ID = Inside(fetched.window)[i].id

\* C18: with translation enabled, a translator failure on an accepted message
\* is not propagated: the fetch returns, the message is in the batch with an
\* empty translated text, and every other message inside the window is in the
\* batch too.
C18_TranslatorFailureNonFatal ==
    (Scraped /\ fetched.window.ok /\ fetched.args.translate
             /\ fetched.args.env.sender_fail \cap AcceptedIds = {}
             /\ fetched.args.env.media_fail \cap AcceptedIds = {}) =>
        /\ fetched.status = "returned"
        /\ AllAccepted
        /\ \A i \in 1 .. Len(fetched.data) :
              fetched.data[i].MESSAGE_ID \in fetched.args.env.translate_fail =>
                  fetched.data[i].TRANSLATED_MESSAGE = ""

\* The translator failed on the first of three accepted messages and translated
\* the last one.
C18_Witness ==
    /\ Scraped /\ fetched.status = "returned" /\ fetched.args.translate
    /\ Len(fetched.data) = 3
    /\ fetched.data[1].MESSAGE_ID \in fetched.args.env.translate_fail
    /\ fetched.data[1].MESSAGE # ""
    /\ fetched.data[3].TRANSLATED_MESSAGE # ""

\* C19: a failure to save the photo or video of an accepted message does not
\* abort the batch: the fetch returns, the message is in the batch with an
\* empty media path, and every other message inside the window is in the
\* batch too.
C19_MediaFailureNonFatal ==
    (Scraped /\ fetched.window.ok
             /\ fetched.args.env.sender_fail \cap AcceptedIds = {}) =>
        /\ fetched.status = "returned"
        /\ AllAccepted
        /\ \A i \in 1 .. Len(fetched.data) :
              fetched.data[i].MESSAGE_ID \in fetched.args.env.media_fail =>
                  fetched.data[i].MEDIA_PATH = ""

\* The text that stands for an empty message text.
Placeholder == "[THIS MESSSAGE CONTAINS NO TEXT]"

\* C20: the translator is never handed the empty string; for an accepted
\* message whose text is empty it is handed the placeholder.
C20_PlaceholderForEmptyText ==
    fetched.fn \in {"scraping", "mining"} =>
        \A i \in 1 .. Len(fetched.asked) :
            /\ fetched.asked[i][2] # ""
            /\ TextOf(fetched.asked[i][1]) = "" => fetched.asked[i][2] = Placeholder

\* ============================================ the remaining export claims
\* The export call of format f of the run in progress has ended, by returning
\* or by raising.
Ended(f) == Ran(f) \/ job.error = f

\* C21: an append-mode export whose selected prior artifact cannot be parsed
\* completes, in both formats, and writes the records of the batch and no
\* other.
C21_CorruptPriorTreatedAsEmpty ==
    \A f \in Exts :
        (Ended(f) /\ ~fetched.empty /\ job.append /\ Glob(pre, f) # {}
                  /\ pre[Prior(f)] = Garbage) =>
            /\ job.error # f
            /\ \E n \in Written(f) : dir[n] = StoredBatch(f)
            /\ \A n \in Written(f) : dir[n] = StoredBatch(f)

\* ------------------------------------------------------------------ mining
\* The messages of the conversation at or after the start of window w, oldest
\* first.
FromStart(w) ==
    LET In(m) == w.start <= m.date IN SelectSeq(conv, In)

\* The number of items the backward loop takes when it stops at the first
\* message before w.start.
StopsBefore(w) ==
    LET items == iter_messages_backward(conv)
    IN  IF \E i \in 1 .. Len(items) : items[i].date < w.start
        THEN CHOOSE i \in 1 .. Len(items) :
                /\ items[i].date < w.start
                /\ \A j \in 1 .. (i - 1) : items[j].date >= w.start
        ELSE Len(items)

\* C22: mining stops at the first message before the start of the window,
\* accepts every message seen before it, and returns the accepted messages in
\* ascending order of their timestamps.
C22_MiningReturnsChronological ==
    FetchReturned("mining") =>
        LET data == fetched.data
            expected == FromStart(fetched.window)
        IN  /\ fetched.pulled = StopsBefore(fetched.window)
            /\ Len(data) = Len(expected)
            /\ Ids(data) = { expected[i].id : i \in 1 .. Len(expected) }
            /\ Chronological(data)

\* ------------------------------------------------------- sender identity
\* The sender has a handle: a username attribute that holds a name.
HasHandle(sender) == sender.has_username /\ sender.username # "None"

\* C23: the sender name of every row scraping returns is the sender's title
\* when it has one, else its handle when it has one, else "Unknown"; it is
\* never None.
C23_SenderNameNeverNull ==
    FetchReturned("scraping") =>
        \A i \in 1 .. Len(fetched.data) :
            LET sender == SenderOf(fetched.data[i].MESSAGE_ID)
                name == fetched.data[i].SENDER_NAME
            IN  /\ name # "None"
                /\ name = IF sender.has_title THEN sender.title
                          ELSE IF HasHandle(sender) THEN sender.username
                          ELSE "Unknown"

\* ------------------------------------------------------ format equivalence
\* The artifact of format f a reader of the target directory opens.
Artifact(f) == LatestFile(Glob(dir, f))

\* The runs so far exported the same batches to both formats, the run in
\* progress included, all of them in append mode or all of them not.
SameExports ==
    /\ pc = "done" /\ job.formats = Exts /\ job.error = ""
    /\ hist["csv"] = hist["json"] /\ hist["csv"].n > 0
    /\ hist["csv"].pure \/ hist["csv"].fresh

\* C24: after runs that exported the same batches with the same append
\* setting to both formats, the csv artifact and the json artifact hold the
\* same records (ids and copies) in the same order and their file names have
\* the same stem.
C24_FormatsEquivalent ==
    SameExports =>
        /\ Artifact("csv").lo = Artifact("json").lo
        /\ Artifact("csv").hi = Artifact("json").hi
        /\ dir[Artifact("csv")] = to_csv(dir[Artifact("json")])

\* ------------------------------------------------------------ enrichment
\* The calls made for single messages, in the order they were made.
EnrichmentCalls ==
    LET ForMessage(c) == c[2] # 0 IN SelectSeq(fetched.calls, ForMessage)

\* Sender lookup, media download where there is media, translation where it
\* was asked for: once each, in this order, message after message.
RECURSIVE OneByOne(_, _)
OneByOne(messages, translate) ==
    IF messages = <<>> THEN <<>>
    ELSE LET m == Head(messages)
         IN  << <<"get_entity", m.id>> >>
                \o (IF HasMedia(m) THEN << <<"download_media", m.id>> >> ELSE <<>>)
                \o (IF translate THEN << <<"translate", m.id>> >> ELSE <<>>)
                \o OneByOne(Tail(messages), translate)

IsPrefix(s, t) == Len(s) <= Len(t) /\ \A i \in 1 .. Len(s) : s[i] = t[i]

\* C25: in a call of scraping the sender lookup, the media download and the
\* translation are made only for messages inside the window, once each, one
\* message after the other in this order, and a record is appended after
\* them; none is made for a skipped message, for the message that ends the
\* iteration or for a message after it.
C25_EnrichmentOnlyForAccepted ==
    fetched.fn = "scraping" =>
        LET expected == OneByOne(Inside(fetched.window), fetched.args.translate)
        IN  /\ IsPrefix(EnrichmentCalls, expected)
            /\ \A i \in 1 .. Len(EnrichmentCalls) :
                  \E k \in 1 .. Len(conv) :
                      /\ conv[k].id = EnrichmentCalls[i][2]
                      /\ InsideWindow(conv[k], fetched.window)
                      /\ k <= fetched.pulled
            /\ fetched.status = "returned" =>
                  /\ EnrichmentCalls = expected
                  /\ Ids(fetched.data) =
                        { EnrichmentCalls[i][2] : i \in 1 .. Len(EnrichmentCalls) }
                  /\ Len(fetched.data) = Len(Inside(fetched.window))

\* A fetch with translation that skipped the first message, enriched the
\* second and stopped at the third.
C25_Witness ==
    /\ FetchReturned("scraping") /\ fetched.args.translate
    /\ Len(conv) = 3
    /\ conv[1].date < fetched.window.start
    /\ InsideWindow(conv[2], fetched.window)
    /\ conv[3].date > fetched.window.end
    /\ EnrichmentCalls = << <<"get_entity", 2>>, <<"translate", 2>> >>
    /\ Ids(fetched.data) = {2}

\* ------------------------------------------------------------- file naming
\* C26: for every pair of date inputs the fetch accepts, start computes the
\* file name suffix without error, and its two dates are the calendar dates
\* of the bounds of the window the fetch used.
C26_SuffixAgreesWithWindow ==
    (pc = "fetched" /\ FetchReturned("scraping")) =>
        /\ job.error = ""
        /\ job.suffix = job.span

====
